---- MODULE Spec2Model ----
(***************************************************************************)
(* The Stop-and-Wait ARQ simulator of src/stop_wait.py as a state machine. *)
(*                                                                         *)
(* Simulated time is counted in ticks of one half of a time unit, the      *)
(* unit in which the parameters of the example run (tp = 5.0, tf = 1.0,    *)
(* ta = 0.5) are whole numbers: 5.0 is 10 ticks.  Sums of such values are  *)
(* exact in binary floating point, so integer arithmetic on ticks is what  *)
(* the program computes for them.                                          *)
(*                                                                         *)
(* frame_error_prob and the value returned by random.random() are counted  *)
(* in units of 1/PScale: probability 1.0 is PScale, and random.random()    *)
(* returns a value of 0 .. PScale-1 (it is always below 1.0).              *)
(***************************************************************************)
EXTENDS Integers, Sequences, FiniteSets

\* ------------------------------------------------------------- bounds
MaxTp == 1
MaxTf == 2
MaxTa == 1
MaxFrames == 3
MaxCorrupt == 3
PScale == 2
Horizon == 8

\* ---------------------------------------- the example run's parameters
ExampleTp == 10
ExampleTf == 2
ExampleTa == 1

VARIABLES
    tp, tf, ta, num_frames, frame_error_prob,   \* the constructor's arguments
    current_time, event_list, sent_count, current_seq, waiting_for_ack,
    pc,      \* "constructed" | "loop" (at the while test) | "done"
    trace    \* history: one record per dispatched event, in dispatch order

vars == <<tp, tf, ta, num_frames, frame_error_prob, current_time, event_list,
          sent_count, current_seq, waiting_for_ack, pc, trace>>

params == <<tp, tf, ta, num_frames, frame_error_prob>>

\* ---------------------------------------------------- the event queue

\* Tuples (event_time, event_type, event_data) are ordered by time, then by
\* the type string ("ack" < "send").
\* Two events equal in both would make Python compare the payload dicts; the
\* queue never holds two events (C3_StopAndWait), so the case does not arise.
TypeRank(t) == IF t = "ack" THEN 0 ELSE 1

EventLess(a, b) ==
    \/ a.time < b.time
    \/ a.time = b.time /\ TypeRank(a.type) < TypeRank(b.type)

\* The heap is kept as the sequence of its events in pop order.
heappush(q, e) ==
    LET k == Cardinality({i \in 1..Len(q) : ~EventLess(e, q[i])})
    IN  SubSeq(q, 1, k) \o <<e>> \o SubSeq(q, k + 1, Len(q))

heappop(q) == [event |-> Head(q), rest |-> Tail(q)]

schedule_event(q, event_time, event_type, event_data) ==
    heappush(q, [time |-> event_time, type |-> event_type, data |-> event_data])

\* ------------------------------------------------------- handle_send

\* corrupted = random.random() < self.frame_error_prob, r the value drawn
Draws == 0..(PScale - 1)

Corrupted(r) == r < frame_error_prob

\* Mutant: the receiver's processing time is left out.
AckArrivalTime_NoProcessing(now) == now + tf + 2 * tp

\* Mutant: the propagation delay counted one way only.
AckArrivalTime_OneWay(now) == now + tf + tp + ta

AckArrivalTime(now) == now + tf + 2 * tp + ta

\* Mutant: the receiver acknowledges a corrupted frame like a good one.
AckSeq_AlwaysNext(seq, corrupted) == (seq + 1) % 2

AckSeq(seq, corrupted) == IF corrupted THEN seq ELSE (seq + 1) % 2

\* Mutant: besides the acknowledgement, a timer re-sends the frame.
handle_send_WithTimer(q, now, frame, corrupted) ==
    schedule_event(
        schedule_event(q, AckArrivalTime(now), "ack",
                       [ack |-> AckSeq(frame.seq, corrupted),
                        original_seq |-> frame.seq,
                        corrupted |-> corrupted]),
        AckArrivalTime(now), "send", frame)

\* The queue after handle_send(frame) run at time now on queue q.
handle_send(q, now, frame, corrupted) ==
    schedule_event(q, AckArrivalTime(now), "ack",
                   [ack |-> AckSeq(frame.seq, corrupted),
                    original_seq |-> frame.seq,
                    corrupted |-> corrupted])

\* -------------------------------------------------------- handle_ack

IsSuccess(ack) == ack.ack = (ack.original_seq + 1) % 2

\* Mutant: the next frame keeps the sequence number of the one acknowledged.
handle_ack_SameSeq(q, now, ack) ==
    IF ~IsSuccess(ack)
    THEN [event_list  |-> schedule_event(q, now, "send", [seq |-> ack.original_seq]),
          sent_count  |-> sent_count,
          current_seq |-> current_seq]
    ELSE IF sent_count + 1 < num_frames
         THEN [event_list  |-> schedule_event(q, now, "send", [seq |-> ack.original_seq]),
               sent_count  |-> sent_count + 1,
               current_seq |-> ack.original_seq]
         ELSE [event_list  |-> q,
               sent_count  |-> sent_count + 1,
               current_seq |-> current_seq]

\* Mutant: the next Send is scheduled at time 0, as the first one is.
handle_ack_AtZero(q, now, ack) ==
    IF ~IsSuccess(ack)
    THEN [event_list  |-> schedule_event(q, 0, "send", [seq |-> ack.original_seq]),
          sent_count  |-> sent_count,
          current_seq |-> current_seq]
    ELSE IF sent_count + 1 < num_frames
         THEN [event_list  |-> schedule_event(q, 0, "send", [seq |-> ack.ack]),
               sent_count  |-> sent_count + 1,
               current_seq |-> ack.ack]
         ELSE [event_list  |-> q,
               sent_count  |-> sent_count + 1,
               current_seq |-> current_seq]

\* Mutant: the test after a delivery is <= instead of <.
handle_ack_OffByOne(q, now, ack) ==
    IF ~IsSuccess(ack)
    THEN [event_list  |-> schedule_event(q, now, "send", [seq |-> ack.original_seq]),
          sent_count  |-> sent_count,
          current_seq |-> current_seq]
    ELSE IF sent_count + 1 <= num_frames
         THEN [event_list  |-> schedule_event(q, now, "send", [seq |-> ack.ack]),
               sent_count  |-> sent_count + 1,
               current_seq |-> ack.ack]
         ELSE [event_list  |-> q,
               sent_count  |-> sent_count + 1,
               current_seq |-> current_seq]

\* Mutant: a negative acknowledgement is dropped, nothing is sent again.
handle_ack_NoRetransmit(q, now, ack) ==
    IF ~IsSuccess(ack)
    THEN [event_list  |-> q,
          sent_count  |-> sent_count,
          current_seq |-> current_seq]
    ELSE IF sent_count + 1 < num_frames
         THEN [event_list  |-> schedule_event(q, now, "send", [seq |-> ack.ack]),
               sent_count  |-> sent_count + 1,
               current_seq |-> ack.ack]
         ELSE [event_list  |-> q,
               sent_count  |-> sent_count + 1,
               current_seq |-> current_seq]

\* Mutant: a delivery is not counted.
handle_ack_NoCount(q, now, ack) ==
    IF ~IsSuccess(ack)
    THEN [event_list  |-> schedule_event(q, now, "send", [seq |-> ack.original_seq]),
          sent_count  |-> sent_count,
          current_seq |-> current_seq]
    ELSE IF sent_count < num_frames
         THEN [event_list  |-> schedule_event(q, now, "send", [seq |-> ack.ack]),
               sent_count  |-> sent_count,
               current_seq |-> ack.ack]
         ELSE [event_list  |-> q,
               sent_count  |-> sent_count,
               current_seq |-> current_seq]

\* Mutant: the counter is advanced before the test, so a negative
\* acknowledgement is counted too.
handle_ack_CountsNack(q, now, ack) ==
    IF ~IsSuccess(ack)
    THEN [event_list  |-> schedule_event(q, now, "send", [seq |-> ack.original_seq]),
          sent_count  |-> sent_count + 1,
          current_seq |-> current_seq]
    ELSE IF sent_count + 1 < num_frames
         THEN [event_list  |-> schedule_event(q, now, "send", [seq |-> ack.ack]),
               sent_count  |-> sent_count + 1,
               current_seq |-> ack.ack]
         ELSE [event_list  |-> q,
               sent_count  |-> sent_count + 1,
               current_seq |-> current_seq]

\* Mutant: the retransmission waits one frame time before it is sent.
handle_ack_DelayedRetransmit(q, now, ack) ==
    IF ~IsSuccess(ack)
    THEN [event_list  |-> schedule_event(q, now + tf, "send", [seq |-> ack.original_seq]),
          sent_count  |-> sent_count,
          current_seq |-> current_seq]
    ELSE IF sent_count + 1 < num_frames
         THEN [event_list  |-> schedule_event(q, now, "send", [seq |-> ack.ack]),
               sent_count  |-> sent_count + 1,
               current_seq |-> ack.ack]
         ELSE [event_list  |-> q,
               sent_count  |-> sent_count + 1,
               current_seq |-> current_seq]

\* Mutant: current_seq is advanced on every delivery, the last one included.
handle_ack_AlwaysAdvance(q, now, ack) ==
    IF ~IsSuccess(ack)
    THEN [event_list  |-> schedule_event(q, now, "send", [seq |-> ack.original_seq]),
          sent_count  |-> sent_count,
          current_seq |-> current_seq]
    ELSE IF sent_count + 1 < num_frames
         THEN [event_list  |-> schedule_event(q, now, "send", [seq |-> ack.ack]),
               sent_count  |-> sent_count + 1,
               current_seq |-> ack.ack]
         ELSE [event_list  |-> q,
               sent_count  |-> sent_count + 1,
               current_seq |-> ack.ack]

\* Mutant: the next frame is sent but current_seq is not updated.
handle_ack_StaleSeq(q, now, ack) ==
    IF ~IsSuccess(ack)
    THEN [event_list  |-> schedule_event(q, now, "send", [seq |-> ack.original_seq]),
          sent_count  |-> sent_count,
          current_seq |-> current_seq]
    ELSE IF sent_count + 1 < num_frames
         THEN [event_list  |-> schedule_event(q, now, "send", [seq |-> ack.ack]),
               sent_count  |-> sent_count + 1,
               current_seq |-> current_seq]
         ELSE [event_list  |-> q,
               sent_count  |-> sent_count + 1,
               current_seq |-> current_seq]

\* Mutant: a delivery is counted only while frames are still wanted.
handle_ack_CountIfWanted(q, now, ack) ==
    IF ~IsSuccess(ack)
    THEN [event_list  |-> schedule_event(q, now, "send", [seq |-> ack.original_seq]),
          sent_count  |-> sent_count,
          current_seq |-> current_seq]
    ELSE IF sent_count >= num_frames
         THEN [event_list  |-> q,
               sent_count  |-> sent_count,
               current_seq |-> current_seq]
         ELSE IF sent_count + 1 < num_frames
              THEN [event_list  |-> schedule_event(q, now, "send", [seq |-> ack.ack]),
                    sent_count  |-> sent_count + 1,
                    current_seq |-> ack.ack]
              ELSE [event_list  |-> q,
                    sent_count  |-> sent_count + 1,
                    current_seq |-> current_seq]

\* The queue, sent_count and current_seq after handle_ack(ack) run at time
\* now on queue q.
handle_ack(q, now, ack) ==
    IF ~IsSuccess(ack)
    THEN [event_list  |-> schedule_event(q, now, "send", [seq |-> ack.original_seq]),
          sent_count  |-> sent_count,
          current_seq |-> current_seq]
    ELSE IF sent_count + 1 < num_frames
         THEN [event_list  |-> schedule_event(q, now, "send", [seq |-> ack.ack]),
               sent_count  |-> sent_count + 1,
               current_seq |-> ack.ack]
         ELSE [event_list  |-> q,
               sent_count  |-> sent_count + 1,
               current_seq |-> current_seq]

\* ------------------------------------------------------------ history

NumCorrupted == Cardinality({i \in 1..Len(trace) :
                                trace[i].kind = "send" /\ trace[i].corrupted})

SendRecord(now, frame, corrupted) ==
    [kind |-> "send", time |-> now, seq |-> frame.seq,
     ack |-> AckSeq(frame.seq, corrupted), corrupted |-> corrupted,
     delivered |-> FALSE]

AckRecord(now, ack, res) ==
    [kind |-> "ack", time |-> now, seq |-> ack.original_seq,
     ack |-> ack.ack, corrupted |-> ack.corrupted,
     delivered |-> (res.sent_count = sent_count + 1)]

\* --------------------------------------------------------------- Init

TimingGrid == ((-1)..MaxTp) \X ((-1)..MaxTf) \X ((-1)..MaxTa)

Timings == TimingGrid \cup {<<ExampleTp, ExampleTf, ExampleTa>>}

\* The state __init__ leaves, for every argument list the constructor accepts
\* (it checks none of them).
Init ==
    /\ \E t \in Timings : tp = t[1] /\ tf = t[2] /\ ta = t[3]
    /\ num_frames \in (-1)..MaxFrames
    /\ frame_error_prob \in (-1)..(PScale + 1)
    /\ current_time = 0
    /\ event_list = <<>>
    /\ sent_count = 0
    /\ current_seq = 0
    /\ waiting_for_ack = 0
    /\ pc = "constructed"
    /\ trace = <<>>

\* ------------------------------------------------------------ actions

\* run_simulation, up to the first test of the while loop.
RunStart ==
    /\ pc = "constructed"
    /\ event_list' = schedule_event(event_list, 0, "send", [seq |-> current_seq])
    /\ pc' = "loop"
    /\ UNCHANGED <<params, current_time, sent_count, current_seq,
                   waiting_for_ack, trace>>

\* One iteration of the loop that pops a "send" event; r is the value
\* random.random() returns.
SendStep(r) ==
    /\ pc = "loop"
    /\ event_list # <<>>
    /\ LET p == heappop(event_list)
           c == Corrupted(r)
       IN  /\ p.event.type = "send"
           /\ c => NumCorrupted < MaxCorrupt
           /\ current_time' = p.event.time
           /\ event_list' = handle_send(p.rest, p.event.time, p.event.data, c)
           /\ trace' = Append(trace, SendRecord(p.event.time, p.event.data, c))
    /\ UNCHANGED <<params, sent_count, current_seq, waiting_for_ack, pc>>

\* One iteration of the loop that pops an "ack" event.
AckStep ==
    /\ pc = "loop"
    /\ event_list # <<>>
    /\ LET p == heappop(event_list)
           res == handle_ack(p.rest, p.event.time, p.event.data)
       IN  /\ p.event.type = "ack"
           /\ current_time' = p.event.time
           /\ event_list' = res.event_list
           /\ sent_count' = res.sent_count
           /\ current_seq' = res.current_seq
           /\ trace' = Append(trace, AckRecord(p.event.time, p.event.data, res))
    /\ UNCHANGED <<params, waiting_for_ack, pc>>

\* The while test finds the queue empty: run_simulation returns.
LoopExit ==
    /\ pc = "loop"
    /\ event_list = <<>>
    /\ pc' = "done"
    /\ UNCHANGED <<params, current_time, event_list, sent_count, current_seq,
                   waiting_for_ack, trace>>

Next ==
    \/ RunStart
    \/ \E r \in Draws : SendStep(r)
    \/ AckStep
    \/ LoopExit

Spec == Init /\ [][Next]_vars

\* ------------------------------------------- the run without a cap on retries

\* The run above stops drawing corrupted outcomes after MaxCorrupt of them.
\* To follow a run through any number of retransmissions in finitely many
\* states, the steps below keep no history and hold simulated time at
\* Horizon once it gets there; everything else is as above.
Clamp(t) == IF t > Horizon THEN Horizon
            ELSE IF t < -Horizon THEN -Horizon ELSE t

ClampQueue(q) == [i \in 1..Len(q) |-> [q[i] EXCEPT !.time = Clamp(@)]]

LiveSendStep(r) ==
    /\ pc = "loop"
    /\ event_list # <<>>
    /\ LET p == heappop(event_list)
           c == Corrupted(r)
       IN  /\ p.event.type = "send"
           /\ current_time' = p.event.time
           /\ event_list' =
                 ClampQueue(handle_send(p.rest, p.event.time, p.event.data, c))
    /\ UNCHANGED <<params, sent_count, current_seq, waiting_for_ack, pc, trace>>

LiveAckStep ==
    /\ pc = "loop"
    /\ event_list # <<>>
    /\ LET p == heappop(event_list)
           res == handle_ack(p.rest, p.event.time, p.event.data)
       IN  /\ p.event.type = "ack"
           /\ current_time' = p.event.time
           /\ event_list' = ClampQueue(res.event_list)
           /\ sent_count' = res.sent_count
           /\ current_seq' = res.current_seq
    /\ UNCHANGED <<params, waiting_for_ack, pc, trace>>

\* A transmission attempt that is not corrupted.
LiveSendOk == \E r \in Draws : ~Corrupted(r) /\ LiveSendStep(r)

LiveNext ==
    \/ RunStart
    \/ \E r \in Draws : LiveSendStep(r)
    \/ LiveAckStep
    \/ LoopExit

\* The interpreter keeps running the loop (weak fairness of the loop's
\* steps), and corruption does not persist for ever: an attempt that can be
\* made again and again is at some point not corrupted (strong fairness of
\* the uncorrupted attempt).
FairSpec ==
    /\ Init
    /\ [][LiveNext]_vars
    /\ WF_vars(LiveNext)
    /\ SF_vars(LiveSendOk)

\* ------------------------------------------- reading the dispatch history

\* One round trip: frame transmission, propagation both ways, processing.
Rtt == tf + 2 * tp + ta

ValidTiming == tp >= 0 /\ tf > 0 /\ ta >= 0

NeverCorrupts == frame_error_prob <= 0

AlwaysCorrupts == frame_error_prob >= PScale

IsDelivery(rec) == rec.delivered

\* The successful AckArrival records, in delivery order.
Deliveries == SelectSeq(trace, IsDelivery)

SendIdx == {i \in 1..Len(trace) : trace[i].kind = "send"}

\* A Send of a frame that was already sent and is not yet delivered.
IsRetransmission(i) ==
    /\ trace[i].kind = "send"
    /\ \E j \in 1..(i - 1) :
          /\ trace[j].kind = "send"
          /\ \A m \in j..i : ~trace[m].delivered

RetransmissionIdx == {i \in 1..Len(trace) : IsRetransmission(i)}

\* The index of the first event dispatched for the frame delivered at index d.
FrameStart(d) ==
    LET before == {i \in 1..(d - 1) : trace[i].delivered}
    IN  IF before = {} THEN 1
        ELSE 1 + CHOOSE i \in before : \A j \in before : j <= i

\* The indices of the Sends (attempts) of the frame delivered at index d.
Attempts(d) == {i \in FrameStart(d)..d : trace[i].kind = "send"}

\* ------------------------------------------------------------- claims

C2_Alternation ==
    \A k \in 1..Len(Deliveries) : Deliveries[k].seq = (k - 1) % 2

C2_Witness ==
    /\ Len(Deliveries) >= 3
    /\ \E i \in RetransmissionIdx : i < Len(trace) - 2
    /\ Cardinality(RetransmissionIdx) >= 2

\* C3. Stop-and-wait discipline: the event queue never holds more than one
\* event (so never a Send beside an unprocessed AckArrival), and the events
\* dispatched are Send, AckArrival, Send, AckArrival, ... in turn.
C3_StopAndWait ==
    /\ Len(event_list) <= 1
    /\ ~ \E i, j \in 1..Len(event_list) :
            event_list[i].type = "send" /\ event_list[j].type = "ack"
    /\ \A i \in 1..Len(trace) :
          trace[i].kind = (IF i % 2 = 1 THEN "send" ELSE "ack")

C3_Witness ==
    /\ Len(trace) >= 6
    /\ Len(event_list) = 1
    /\ RetransmissionIdx # {}
    /\ Len(Deliveries) >= 1

\* C4. No event is scheduled in the past: with tp >= 0, tf > 0 and ta >= 0,
\* every queued event has time >= current_time whenever the run loop looks at
\* the queue, and the times the loop sets current_time to never decrease.
C4_NoPastEvent ==
    ValidTiming =>
        /\ \A i \in 1..Len(event_list) : event_list[i].time >= current_time
        /\ \A i \in 1..Len(trace) : \A j \in i..Len(trace) :
              trace[i].time <= trace[j].time
        /\ Len(trace) > 0 => current_time = trace[Len(trace)].time

C4_Witness ==
    /\ ValidTiming
    /\ pc = "loop"
    /\ Len(event_list) = 1
    /\ event_list[1].time > current_time
    /\ current_time > 0
    /\ Len(trace) >= 4

\* C5. Termination condition: with num_frames >= 1, at a loop test the queue
\* is empty exactly when sent_count = num_frames; it is never empty while
\* sent_count < num_frames, and once sent_count = num_frames nothing more is
\* scheduled or dispatched (the last event dispatched is the final delivery).
C5_TerminationCondition ==
    (num_frames >= 1 /\ pc # "constructed") =>
        /\ (event_list = <<>>) <=> (sent_count = num_frames)
        /\ sent_count < num_frames => event_list # <<>>
        /\ sent_count <= num_frames
        /\ sent_count = num_frames =>
              /\ Len(trace) > 0
              /\ trace[Len(trace)].delivered
        /\ pc = "done" => (sent_count = num_frames /\ event_list = <<>>)

C5_Witness ==
    /\ pc = "done"
    /\ num_frames >= 2
    /\ sent_count = num_frames
    /\ RetransmissionIdx # {}

\* C6. Termination under p < 1: if corruption does not persist for ever, every
\* run with num_frames >= 1 and corruption probability below 1 reaches the
\* state in which the loop has ended with an empty queue and
\* sent_count = num_frames.
C6_Terminates ==
    (num_frames >= 1 /\ frame_error_prob < PScale) =>
        <>(pc = "done" /\ event_list = <<>> /\ sent_count = num_frames)

\* A run that ended after at least one retransmission (it took longer than
\* num_frames round trips) although every attempt could have been corrupted.
C6_Witness ==
    /\ pc = "done"
    /\ frame_error_prob > 0
    /\ frame_error_prob < PScale
    /\ num_frames >= 2
    /\ sent_count = num_frames
    /\ Rtt > 0
    /\ current_time > num_frames * Rtt
    /\ current_time < Horizon

\* C7. Livelock boundary: with corruption probability 1 the run stops with an
\* error after m attempts on the first frame, m a configured bound; so no
\* more than m Sends are ever dispatched (here for m = MaxCorrupt - 1, and
\* likewise for every smaller m).
C7_DivergedAfterBound ==
    AlwaysCorrupts => Cardinality(SendIdx) <= MaxCorrupt - 1

\* C8. Configuration errors fail fast: with tp < 0, ta < 0, tf <= 0,
\* num_frames < 1 or a corruption probability outside [0,1], no event is ever
\* scheduled and current_time, sent_count and current_seq keep their initial
\* values.
InvalidConfig ==
    \/ tp < 0
    \/ ta < 0
    \/ tf <= 0
    \/ num_frames < 1
    \/ frame_error_prob < 0
    \/ frame_error_prob > PScale

C8_FailFast ==
    InvalidConfig =>
        /\ event_list = <<>>
        /\ trace = <<>>
        /\ current_time = 0
        /\ sent_count = 0
        /\ current_seq = 0

C10_LivelockAtOne ==
    AlwaysCorrupts =>
        /\ pc # "done"
        /\ pc = "loop" => event_list # <<>>
        /\ sent_count = 0
        /\ current_seq = 0
        /\ \A i \in 1..Len(event_list) :
              /\ event_list[i].type = "send" => event_list[i].data.seq = 0
              /\ event_list[i].type = "ack" => event_list[i].data.ack = 0
        /\ \A i \in 1..Len(trace) :
              /\ trace[i].seq = 0
              /\ trace[i].corrupted
              /\ ~trace[i].delivered
        /\ \A i \in 2..Len(trace) : trace[i].kind = "send" => IsRetransmission(i)

C10_Witness ==
    /\ AlwaysCorrupts
    /\ frame_error_prob = PScale
    /\ num_frames >= 1
    /\ Cardinality(RetransmissionIdx) >= 2
    /\ Len(event_list) = 1

\* ------------------------------------------------- single steps of the loop

\* The loop is about to pop and dispatch an event.
Dispatching == pc = "loop" /\ event_list # <<>>

\* The event the next iteration pops.
NextEvent == Head(event_list)

DispatchingSend == Dispatching /\ NextEvent.type = "send"

DispatchingAck == Dispatching /\ NextEvent.type = "ack"

NextSeq(seq) == (seq + 1) % 2

\* C11. sent_count never decreases; a step that processes a successful
\* AckArrival (the attempt was not corrupted and ack = (original_seq+1) mod 2)
\* adds exactly 1 to it; a Send step, an unsuccessful AckArrival step and
\* every other step leave it unchanged; with num_frames >= 1 it never
\* exceeds num_frames.
C11_CountSteps ==
    /\ sent_count' >= sent_count
    /\ num_frames >= 1 => (sent_count <= num_frames /\ sent_count' <= num_frames)
    /\ DispatchingSend => sent_count' = sent_count
    /\ DispatchingAck =>
          /\ (/\ ~NextEvent.data.corrupted
              /\ NextEvent.data.ack = NextSeq(NextEvent.data.original_seq))
                => sent_count' = sent_count + 1
          /\ NextEvent.data.ack # NextSeq(NextEvent.data.original_seq)
                => sent_count' = sent_count
    /\ ~Dispatching => sent_count' = sent_count

C11_DeliveredCount == [][C11_CountSteps]_vars

\* Two deliveries counted, the second after an unsuccessful AckArrival.
C11_Witness ==
    /\ sent_count = 2
    /\ Len(Deliveries) = 2
    /\ \E i \in RetransmissionIdx : i > 2
    /\ trace[Len(trace)].delivered

\* The sequence q without its i-th element.
Without(q, i) == SubSeq(q, 1, i - 1) \o SubSeq(q, i + 1, Len(q))

\* C12. A Send step for a frame with sequence number seq, dispatched at time
\* t, schedules exactly one event: an AckArrival at t + tf + 2*tp + ta whose
\* record has original_seq = seq and ack = seq if the attempt is corrupted,
\* (seq + 1) mod 2 otherwise (corrupted never with probability <= 0, always
\* with probability >= 1); current_time is t during and after the handler,
\* and sent_count and current_seq are unchanged.
C12_SendStep ==
    DispatchingSend =>
        LET seq == NextEvent.data.seq
            t   == NextEvent.time
        IN  /\ current_time' = t
            /\ sent_count' = sent_count
            /\ current_seq' = current_seq
            /\ Len(event_list') = Len(event_list)
            /\ \E i \in 1..Len(event_list') :
                  LET a == event_list'[i]
                  IN  /\ Without(event_list', i) = Tail(event_list)
                      /\ a.type = "ack"
                      /\ a.time = t + tf + 2 * tp + ta
                      /\ a.data.original_seq = seq
                      /\ a.data.ack = (IF a.data.corrupted THEN seq
                                       ELSE (seq + 1) % 2)
                      /\ NeverCorrupts => ~a.data.corrupted
                      /\ AlwaysCorrupts => a.data.corrupted

C12_OnSend == [][C12_SendStep]_vars

\* A corrupted Send of frame 1 has just been handled: its AckArrival, asking
\* for frame 1 again, is queued one round trip ahead.
C12_Witness ==
    /\ DispatchingAck
    /\ NextEvent.data.original_seq = 1
    /\ NextEvent.data.corrupted
    /\ NextEvent.data.ack = 1
    /\ Rtt > 0
    /\ NextEvent.time = current_time + Rtt
    /\ trace[Len(trace)].kind = "send"

\* C13. An AckArrival step for a record with ack # (original_seq + 1) mod 2,
\* dispatched at time t, schedules exactly one event: a Send at time t (no
\* further delay) carrying the sequence number original_seq; sent_count and
\* current_seq are unchanged.
C13_NackStep ==
    (DispatchingAck
       /\ NextEvent.data.ack # (NextEvent.data.original_seq + 1) % 2) =>
        LET t == NextEvent.time
        IN  /\ current_time' = t
            /\ sent_count' = sent_count
            /\ current_seq' = current_seq
            /\ Len(event_list') = Len(event_list)
            /\ \E i \in 1..Len(event_list') :
                  LET e == event_list'[i]
                  IN  /\ Without(event_list', i) = Tail(event_list)
                      /\ e.type = "send"
                      /\ e.time = t
                      /\ e.data = [seq |-> NextEvent.data.original_seq]

C13_OnNack == [][C13_NackStep]_vars

\* A negative acknowledgement for frame 1 has just been handled at a time
\* after 0: the retransmission of frame 1 is queued for that same time.
C13_Witness ==
    /\ DispatchingSend
    /\ Len(trace) > 0
    /\ trace[Len(trace)].kind = "ack"
    /\ ~trace[Len(trace)].delivered
    /\ trace[Len(trace)].seq = 1
    /\ NextEvent.data.seq = 1
    /\ NextEvent.time = current_time
    /\ current_time > 0
    /\ sent_count = 1

Min(a, b) == IF a <= b THEN a ELSE b

\* C14. With num_frames >= 1, at every iteration boundary of the run loop
\* current_seq = min(sent_count, num_frames - 1) mod 2; the final delivery
\* does not advance it, so once the run has ended current_seq is the sequence
\* number of the last delivered frame, (num_frames - 1) mod 2, and not the
\* one its acknowledgement asks for.
C14_CurrentSeq ==
    num_frames >= 1 =>
        /\ current_seq = Min(sent_count, num_frames - 1) % 2
        /\ pc = "done" =>
              /\ current_seq = (num_frames - 1) % 2
              /\ Len(trace) > 0
              /\ current_seq = trace[Len(trace)].seq
              /\ current_seq # trace[Len(trace)].ack

C14_Witness ==
    /\ pc = "done"
    /\ num_frames = 3
    /\ sent_count = 3
    /\ current_seq = 0
    /\ trace[Len(trace)].ack = 1
    /\ RetransmissionIdx # {}

\* C15. Every event waiting to be dispatched is about the current frame: a
\* Send carries seq = current_seq and an AckArrival has original_seq =
\* current_seq, so that is what holds when it is dispatched; an AckArrival
\* record is a negative acknowledgement (ack = original_seq) exactly when its
\* attempt was corrupted, and the handler counts it as a delivery exactly
\* when the attempt was not corrupted.
C15_CurrentFrameOnly ==
    /\ \A i \in 1..Len(event_list) :
          LET e == event_list[i]
          IN  /\ e.type = "send" => e.data.seq = current_seq
              /\ e.type = "ack" =>
                    /\ e.data.original_seq = current_seq
                    /\ e.data.corrupted <=> (e.data.ack = e.data.original_seq)
                    /\ ~e.data.corrupted <=>
                          (e.data.ack = (e.data.original_seq + 1) % 2)
    /\ \A i \in 1..Len(trace) :
          trace[i].kind = "ack" =>
              /\ trace[i].delivered <=> ~trace[i].corrupted
              /\ trace[i].corrupted <=> (trace[i].ack = trace[i].seq)

\* The second frame's AckArrival is waiting after a retransmission of it.
C15_Witness ==
    /\ DispatchingAck
    /\ current_seq = 1
    /\ NextEvent.data.original_seq = 1
    /\ ~NextEvent.data.corrupted
    /\ \E i \in RetransmissionIdx : trace[i].seq = 1

\* C16. With num_frames <= 0 the run is not empty and raises nothing:
\* run_simulation schedules frame 0 and sends it, every corrupted attempt is
\* followed by another Send of frame 0, the first attempt that is not
\* corrupted is counted as one delivery, after which nothing is scheduled,
\* and the run ends with sent_count = 1 > num_frames (it does end when the
\* corruption probability is below 1 and corruption does not persist for
\* ever).
C16_State ==
    num_frames <= 0 =>
        /\ sent_count \in {0, 1}
        /\ current_seq = 0
        /\ \A i \in 1..Len(event_list) :
              /\ event_list[i].type = "send" => event_list[i].data.seq = 0
              /\ event_list[i].type = "ack" => event_list[i].data.original_seq = 0
        /\ (pc = "loop" /\ sent_count = 0) => Len(event_list) = 1
        /\ sent_count = 1 => event_list = <<>>
        /\ pc = "done" => (sent_count = 1 /\ sent_count > num_frames)

C16_Step ==
    (num_frames <= 0 /\ DispatchingAck) =>
        /\ ~NextEvent.data.corrupted =>
              (sent_count' = sent_count + 1 /\ event_list' = <<>>)
        /\ NextEvent.data.corrupted =>
              /\ sent_count' = sent_count
              /\ Len(event_list') = 1
              /\ event_list'[1].type = "send"

====
